---- MODULE Spec2Model ----
(***************************************************************************)
(* A model of the WPSec command-line client (src/wpsec-cli.py): one run of *)
(* WPSecCLI.run, from the try block that authenticates and dispatches the  *)
(* requested action to the process exit.  The remote service, the          *)
(* transport and the keyboard are the environment; every reply of theirs   *)
(* is a nondeterministic input.                                            *)
(***************************************************************************)
EXTENDS Integers, Sequences, FiniteSets, TLC

VARIABLES
    args,       \* the parsed command line (argparse namespace)
    pc,         \* position of the run
    op,         \* the client call in progress
    token,      \* WPSecClient.token
    attempt,    \* retries already spent by the transport on the current request
    response,   \* the response being processed
    sent,       \* every outbound request so far, with its Authorization header
    svc,        \* the remote service's reports (environment)
    first_page, \* first_page_data of _action_list_reports
    reports,    \* reports of _action_list_reports
    shown,      \* what was handed to _pretty_print_reports
    result,     \* what the action printed on success
    file,       \* the -o FILE of get_report: content and handle
    stderr,     \* messages on the error stream
    stdout,     \* error messages printed on the standard stream
    exitCode,   \* process exit status
    interrupted \* a KeyboardInterrupt was delivered

vars == <<args, pc, op, token, attempt, response, sent, svc, first_page, reports,
          shown, result, file, stderr, stdout, exitCode, interrupted>>

(***************************************************************************)
(* Bounds of the model.                                                    *)
(***************************************************************************)
MaxReports == 5
MaxPerPage == 3
MaxUserPage == 3
MaxPad == 1

(***************************************************************************)
(* Program constants.                                                      *)
(***************************************************************************)
MAX_RETRIES == 3
REPORT_ID_LEN == 32
TITLE_MAX == 255
PORT_MAX == 65535
DEFAULT_PER_PAGE == 50

None == "None"

(***************************************************************************)
(* Strings are sequences of one-character strings.                         *)
(***************************************************************************)
Whitespace == {" ", "\t"}
HexDigits == {"0","1","2","3","4","5","6","7","8","9",
              "a","b","c","d","e","f","A","B","C","D","E","F"}
Digits == {"0","1","2","3","4","5","6","7","8","9"}
Letters == {"a","b","c","h","l","o","p","s","t","f","x","H","T","P"}
SchemeChars == Letters \cup Digits \cup {"+", "-", "."}

DigitValue(c) ==
    CASE c = "0" -> 0 [] c = "1" -> 1 [] c = "2" -> 2 [] c = "3" -> 3 [] c = "4" -> 4
      [] c = "5" -> 5 [] c = "6" -> 6 [] c = "7" -> 7 [] c = "8" -> 8 [] c = "9" -> 9

Lower(c) ==
    CASE c = "H" -> "h" [] c = "T" -> "t" [] c = "P" -> "p" [] OTHER -> c

LowerStr(s) == [i \in 1..Len(s) |-> Lower(s[i])]

\* str.strip(): drop leading and trailing whitespace
RECURSIVE LStrip(_)
LStrip(s) == IF s # <<>> /\ Head(s) \in Whitespace THEN LStrip(Tail(s)) ELSE s

RECURSIVE RStrip(_)
RStrip(s) ==
    IF s # <<>> /\ s[Len(s)] \in Whitespace THEN RStrip(SubSeq(s, 1, Len(s) - 1)) ELSE s

Strip(s) == RStrip(LStrip(s))

\* str.find(c) over a set of characters: index of the first one, 0 when none
FindAny(s, cs) ==
    IF \E i \in 1..Len(s) : s[i] \in cs
    THEN CHOOSE i \in 1..Len(s) : s[i] \in cs /\ \A j \in 1..(i - 1) : s[j] \notin cs
    ELSE 0

\* str.rfind(c): index of the last occurrence, 0 when none
RFind(s, c) ==
    IF \E i \in 1..Len(s) : s[i] = c
    THEN CHOOSE i \in 1..Len(s) : s[i] = c /\ \A j \in (i + 1)..Len(s) : s[j] # c
    ELSE 0

Contains(s, c) == \E i \in 1..Len(s) : s[i] = c

EndsWith(s, t) == Len(s) >= Len(t) /\ SubSeq(s, Len(s) - Len(t) + 1, Len(s)) = t

\* html.escape(title)
EscapeChar(c) ==
    CASE c = "&" -> <<"&","a","m","p",";">>
      [] c = "<" -> <<"&","l","t",";">>
      [] c = ">" -> <<"&","g","t",";">>
      [] c = "\"" -> <<"&","q","u","o","t",";">>
      [] c = "'" -> <<"&","#","x","2","7",";">>
      [] OTHER -> <<c>>

RECURSIVE HtmlEscape(_)
HtmlEscape(s) ==
    IF s = <<>> THEN <<>>
    ELSE IF Len(s) = 1 THEN EscapeChar(s[1])
    ELSE HtmlEscape(SubSeq(s, 1, Len(s) \div 2))
           \o HtmlEscape(SubSeq(s, Len(s) \div 2 + 1, Len(s)))

\* urllib.parse.urlparse(url): scheme, netloc and path
UrlScheme(u) ==
    LET i == FindAny(u, {":"})
    IN  IF i > 1 /\ u[1] \in Letters /\ \A j \in 1..(i - 1) : u[j] \in SchemeChars
        THEN i ELSE 0

HasNetloc(rest) == Len(rest) >= 2 /\ rest[1] = "/" /\ rest[2] = "/"

UpTo(t, cut) == IF cut = 0 THEN t ELSE SubSeq(t, 1, cut - 1)

From(t, cut) == IF cut = 0 THEN <<>> ELSE SubSeq(t, cut, Len(t))

NetlocOf(after) == UpTo(after, FindAny(after, {"/", "?", "#"}))

PathOf(tail) == UpTo(tail, FindAny(tail, {"?", "#"}))

UrlParts(scheme, rest) ==
    IF HasNetloc(rest)
    THEN [scheme |-> scheme,
          netloc |-> NetlocOf(SubSeq(rest, 3, Len(rest))),
          path   |-> PathOf(From(SubSeq(rest, 3, Len(rest)),
                                 FindAny(SubSeq(rest, 3, Len(rest)), {"/", "?", "#"})))]
    ELSE [scheme |-> scheme, netloc |-> <<>>, path |-> PathOf(rest)]

UrlSplit(u, i) ==
    IF i > 0
    THEN UrlParts(LowerStr(SubSeq(u, 1, i - 1)), SubSeq(u, i + 1, Len(u)))
    ELSE UrlParts(<<>>, u)

urlparse(u) == UrlSplit(u, UrlScheme(u))

http == <<"h","t","t","p">>
https == <<"h","t","t","p","s">>
htpp == <<"h","t","p","p">>
htpps == <<"h","t","p","p","s">>
localhost == <<"l","o","c","a","l","h","o","s","t">>
LoopbackHosts == {localhost, <<"1","2","7",".","0",".","0",".","1">>,
                  <<"0",".","0",".","0",".","0">>}
\* the grave accent cannot be written inside a string here: it is named
Backtick == "GRAVE"
ForbiddenHostChars == {" ", "<", ">", "\"", "{", "}", "|", "\\", "^", Backtick}

ValidParsed(r) ==
    /\ r.scheme \in {http, https}
    /\ r.netloc # <<>>
    /\ ~\E i \in 1..Len(r.netloc) : r.netloc[i] \in ForbiddenHostChars
    /\ (Contains(r.netloc, ".") \/ r.netloc \in LoopbackHosts)

_is_valid_url(u) == ValidParsed(urlparse(u))

\* int(port): the value of a digit string, -1 for what int() rejects
IntOf(s) ==
    LET val[i \in 0..Len(s)] == IF i = 0 THEN 0 ELSE 10 * val[i - 1] + DigitValue(s[i])
    IN  val[Len(s)]

ParseInt(s) == IF s # <<>> /\ \A i \in 1..Len(s) : s[i] \in Digits THEN IntOf(s) ELSE -1

PortIn(port) == port >= 1 /\ port <= PORT_MAX

PortOk(netloc) ==
    IF /\ Contains(netloc, ":")
       /\ ~EndsWith(netloc, <<":","8","0">>)
       /\ ~EndsWith(netloc, <<":","4","4","3">>)
    THEN PortIn(ParseInt(SubSeq(netloc, RFind(netloc, ":") + 1, Len(netloc))))
    ELSE TRUE

\* add_site from the parsed URL on: url is the URL with its trailing slash added
ValidateParsed(title, url, parsed) ==
    IF parsed.netloc = <<>> THEN [ok |-> FALSE, error |-> "MISSING_DOMAIN"]
    ELSE IF Contains(url, " ") THEN [ok |-> FALSE, error |-> "URL_HAS_SPACES"]
    ELSE IF parsed.scheme \in {htpp, htpps} THEN [ok |-> FALSE, error |-> "SCHEME_TYPO"]
    ELSE IF ~PortOk(parsed.netloc) THEN [ok |-> FALSE, error |-> "INVALID_PORT"]
    ELSE [ok |-> TRUE, title |-> HtmlEscape(title), url |-> url]

WithSlash(url, parsed) == IF parsed.path = <<>> THEN url \o <<"/">> ELSE url

\* add_site on the stripped title and URL
ValidateStripped(title, url) ==
    IF title = <<>> THEN [ok |-> FALSE, error |-> "EMPTY_TITLE"]
    ELSE IF Len(title) > TITLE_MAX THEN [ok |-> FALSE, error |-> "TITLE_TOO_LONG"]
    ELSE IF url = <<>> THEN [ok |-> FALSE, error |-> "EMPTY_URL"]
    ELSE IF ~_is_valid_url(url) THEN [ok |-> FALSE, error |-> "INVALID_URL"]
    ELSE ValidateParsed(title, WithSlash(url, urlparse(url)), urlparse(url))

\* The validation of WPSecClient.add_site: "ok" with the payload, or the error raised
AddSiteValidate(rawTitle, rawUrl) == ValidateStripped(Strip(rawTitle), Strip(rawUrl))

\* The validation of WPSecClient.get_report
\* the check without the length test
IsReportId_any_length(report_id) ==
    \A i \in 1..Len(report_id) : report_id[i] \in HexDigits

IsReportId(report_id) ==
    Len(report_id) = REPORT_ID_LEN /\ \A i \in 1..Len(report_id) : report_id[i] \in HexDigits

ReportIdValid(raw) == IsReportId(Strip(raw))

(***************************************************************************)
(* Command lines.                                                          *)
(***************************************************************************)
Actions == {"ping", "get_sites", "add_site", "list_reports", "get_report"}

Repeat(c, n) == [i \in 1..n |-> c]

TitleSamples ==
    { <<>>, <<" ">>, <<"M","y">>, <<" ","M","y"," ">>, <<"a","<","b">>,
      Repeat("x", TITLE_MAX + 1) }

HostAB == <<"a",".","b">>
Slashes == <<":","/","/">>

UrlSamples ==
    { <<>>,
      <<" ">>,
      http \o Slashes \o HostAB,
      <<" ">> \o http \o Slashes \o HostAB \o <<" ">>,
      https \o Slashes \o HostAB \o <<"/","p">>,
      <<"H","T","T","P">> \o Slashes \o HostAB,
      http \o Slashes \o <<"a"," ",".","b">>,
      http \o Slashes \o HostAB \o <<"/","p"," ","x">>,
      htpp \o Slashes \o HostAB,
      htpps \o Slashes \o HostAB \o <<"/">>,
      <<"f","t","p">> \o Slashes \o HostAB,
      http \o Slashes \o <<"a","b">>,
      http \o <<":","/">> \o HostAB,
      http \o Slashes \o localhost,
      http \o Slashes \o HostAB \o <<":","8","0","8","0">>,
      http \o Slashes \o HostAB \o <<":","9","9","9","9","9">>,
      http \o Slashes \o HostAB \o <<":","x">>,
      http \o Slashes \o HostAB \o <<":","4","4","3">> }

\* n characters, hexadecimal digits of both cases but for the k-th, which is c
HexBody(n, k, c) ==
    [i \in 1..n |-> IF i = k THEN c
                    ELSE IF i % 3 = 0 THEN "F" ELSE IF i % 3 = 1 THEN "a" ELSE "7"]

ReportIdSamples ==
    { Repeat(" ", l) \o HexBody(n, k, c) \o Repeat(" ", r) :
        l \in 0..MaxPad, r \in 0..MaxPad,
        n \in (REPORT_ID_LEN - 1)..(REPORT_ID_LEN + 1),
        k \in {0, 1, 2},
        c \in {"g", " "} }
    \cup { HexBody(n, n, c) : n \in {REPORT_ID_LEN, REPORT_ID_LEN + 1}, c \in {"g", " "} }
    \cup { <<>> }

NoArgs ==
    [action |-> "ping", title |-> <<>>, url |-> <<>>, page |-> 1,
     report_id |-> <<>>, output |-> FALSE]

ArgsSet ==
    { NoArgs, [NoArgs EXCEPT !.action = "get_sites"] }
    \cup { [NoArgs EXCEPT !.action = "add_site", !.title = t, !.url = u] :
             t \in TitleSamples, u \in UrlSamples }
    \cup { [NoArgs EXCEPT !.action = "list_reports", !.page = p] : p \in (-1)..MaxUserPage }
    \cup { [NoArgs EXCEPT !.action = "get_report", !.report_id = r, !.output = o] :
             r \in ReportIdSamples, o \in BOOLEAN }

(***************************************************************************)
(* The remote service: reports are numbered in creation order (a larger    *)
(* reportId is a newer report) and listed oldest-first in pages of perPage.*)
(***************************************************************************)
MaxServiceChanges == 1

Min(a, b) == IF a < b THEN a ELSE b
Max(a, b) == IF a > b THEN a ELSE b

Reverse(s) == [i \in 1..Len(s) |-> s[Len(s) + 1 - i]]

SvcCount(s) == s.last - s.first + 1

\* the JSON body of GET /reports?page=n
ServicePage(s, n) ==
    LET lo == s.first + (n - 1) * s.perPage
        hi == Min(lo + s.perPage - 1, s.last)
    IN  [kind |-> "page",
         list |-> [i \in 1..Max(hi - lo + 1, 0) |-> lo + i - 1],
         has_paginate |-> TRUE,
         paginate |-> [last_page |-> (SvcCount(s) + s.perPage - 1) \div s.perPage,
                       total |-> SvcCount(s),
                       per_page |-> s.perPage]]

NoPage ==
    [kind |-> "none", list |-> <<>>, has_paginate |-> FALSE,
     paginate |-> [last_page |-> 1, total |-> 0, per_page |-> DEFAULT_PER_PAGE]]

(***************************************************************************)
(* Responses.  A body is described by what the client looks for in it.     *)
(***************************************************************************)
Statuses == {200, 201, 202, 204, 400, 401, 404, 429, 500, 501}
\* a retry list that also holds 400
status_forcelist_with_400 == {400, 429, 500, 502, 503, 504}

status_forcelist == {429, 500, 502, 503, 504}

AccessTokens == {"tok", ""}

AuthBodies ==
    { [kind |-> "auth_failed"], [kind |-> "not_json"], [kind |-> "no_token"] }
    \cup { [kind |-> "token", access_token |-> t] : t \in AccessTokens }

PingBodies == { [kind |-> "pingpong"], [kind |-> "other"] }

SitesBodies ==
    { [kind |-> "sites", n |-> 0], [kind |-> "sites", n |-> 2],
      [kind |-> "error_object"], [kind |-> "not_json"] }

AddSiteBodies ==
    { [kind |-> "markers", Error |-> e, added |-> a, taken |-> t] :
        e \in BOOLEAN, a \in BOOLEAN, t \in BOOLEAN }

ReportContents ==
    {"empty", "no_resource", "json", "not_json", "not_found", "permission", "other"}

ReportBodies ==
    { [kind |-> "report", html |-> h, content |-> c] : h \in BOOLEAN, c \in ReportContents }

ListBodies(n) ==
    { ServicePage(svc, n),
      [ServicePage(svc, n) EXCEPT !.kind = "no_paginate", !.has_paginate = FALSE],
      [NoPage EXCEPT !.kind = "no_data"],
      [NoPage EXCEPT !.kind = "not_json"] }

NoResponse == [status |-> 0, body |-> [kind |-> "none"]]

LastSent == sent[Len(sent)]

Bodies ==
    CASE op = "authenticate" -> AuthBodies
      [] op = "ping" -> PingBodies
      [] op = "get_sites" -> SitesBodies
      [] op = "add_site" -> AddSiteBodies
      [] op = "get_report" -> ReportBodies
      [] op \in {"list_first", "list_actual", "list_prev"} -> ListBodies(LastSent.page)

\* a 204 response has no content
EmptyBodies ==
    { [kind |-> "other"], [kind |-> "not_json"], [NoPage EXCEPT !.kind = "not_json"],
      [kind |-> "markers", Error |-> FALSE, added |-> FALSE, taken |-> FALSE] }
    \cup { [kind |-> "report", html |-> h, content |-> "empty"] : h \in BOOLEAN }

expected_codes ==
    IF op \in {"authenticate", "add_site"} THEN {200, 201} ELSE {200, 201, 204}

(***************************************************************************)
(* The state after construction: WPSecClient.__init__, parse_args.         *)
(***************************************************************************)
NoShown ==
    [kind |-> "none", list |-> <<>>, has_paginate |-> FALSE, page |-> 0, total_pages |-> 0]

Init ==
    /\ args \in ArgsSet
    /\ pc = "start"
    /\ op = None
    /\ token = None
    /\ attempt = 0
    /\ response = NoResponse
    /\ sent = <<>>
    /\ IF args.action = "list_reports"
       THEN svc \in [first : {1}, last : 0..MaxReports, perPage : 1..MaxPerPage,
                     changes : {0}]
       ELSE svc = [first |-> 1, last |-> 0, perPage |-> 1, changes |-> 0]
    /\ first_page = NoPage
    /\ reports = NoPage
    /\ shown = NoShown
    /\ result = None
    /\ IF args.action = "get_report" /\ args.output
       THEN file \in [content : {"absent", "prior"}, handle : {"none"}]
       ELSE file = [content |-> "absent", handle |-> "none"]
    /\ stderr = <<>>
    /\ stdout = <<>>
    /\ exitCode = 0
    /\ interrupted = FALSE

(***************************************************************************)
(* WPSecCLI.run: the handlers of its try block.                            *)
(***************************************************************************)
Finish(code, errs, outs) ==
    /\ pc' = "exit"
    /\ exitCode' = code
    /\ stderr' = stderr \o errs
    /\ stdout' = stdout \o outs

\* except WPSecAPIError: the message on the error stream, sys.exit(1)
HandleApiError(kind) == Finish(1, <<kind>>, <<>>)

\* except KeyboardInterrupt: sys.exit(130)
HandleInterrupt == Finish(130, <<"CANCELLED">>, <<>>)

\* except Exception: sys.exit(1)
HandleUnexpected == Finish(1, <<"UNEXPECTED">>, <<>>)

\* the action returned: run returns and the process exits with status 0
Return(outs) == Finish(0, <<>>, outs)

(***************************************************************************)
(* WPSecClient._make_request                                               *)
(***************************************************************************)
Truthy(t) == t \notin {None, ""}

\* the Authorization header _make_request adds: <<>> when it adds none
AuthHeader == IF Truthy(token) THEN <<"Bearer", token>> ELSE <<>>

Call(o, method, endpoint, page, payload) ==
    /\ op' = o
    /\ pc' = "send"
    /\ attempt' = 0
    /\ response' = NoResponse
    /\ sent' = Append(sent, [method |-> method, endpoint |-> endpoint, page |-> page,
                             payload |-> payload, authorization |-> AuthHeader])

\* ping without its except clause
RequestError_uncaught(kind) ==
    /\ result' = result
    /\ HandleApiError(kind)

\* a WPSecAPIError raised by _make_request reaches ping's handler or run's
RequestError(kind) ==
    IF op = "ping"
    THEN /\ result' = "ping_error"
         /\ Return(<<"API_DOWN">>)
    ELSE /\ result' = result
         /\ HandleApiError(kind)

\* the classes of the exceptions session.request raises
ExceptionClasses(e) ==
    CASE e = "ConnectionError" -> {"ConnectionError", "RequestException"}
      [] e = "ConnectTimeout" -> {"ConnectTimeout", "ConnectionError", "Timeout",
                                  "RequestException"}
      [] e = "ReadTimeout" -> {"ReadTimeout", "Timeout", "RequestException"}
      [] e = "RetryError" -> {"RetryError", "RequestException"}
      [] e = "RequestException" -> {"RequestException"}

\* the except clauses of _make_request, in their order
ExceptKind(e) ==
    IF "ConnectionError" \in ExceptionClasses(e) THEN "API_DOWN"
    ELSE IF "Timeout" \in ExceptionClasses(e) THEN "API_TIMEOUT"
    ELSE "REQUEST_FAILED"

\* what the transport raises once a failure is final
Raised(cause) ==
    CASE cause = "connection" -> {"ConnectionError"}
      [] cause = "connect_timeout" -> {"ConnectTimeout"}
      [] cause = "read_timeout" -> {"ReadTimeout", "ConnectionError"}
      [] cause = "status" -> {"RetryError"}
      [] cause = "other" -> {"RequestException"}

RetryableCauses == {"connection", "connect_timeout", "read_timeout", "status"}

Failure(cause, status) == [status |-> status, body |-> [kind |-> "failure", cause |-> cause]]

Failures ==
    { Failure(c, 0) : c \in {"connection", "connect_timeout", "read_timeout", "other"} }
    \cup { Failure("status", st) : st \in Statuses \cap status_forcelist }

\* the transport answers with a response it does not retry on
TransportRespond ==
    /\ pc = "send"
    /\ \E st \in Statuses \ status_forcelist, b \in Bodies :
         /\ st = 204 => b \in EmptyBodies
         /\ response' = [status |-> st, body |-> b]
    /\ pc' = "check"
    /\ UNCHANGED <<args, op, token, attempt, sent, svc, first_page, reports, shown,
                   result, file, stderr, stdout, exitCode, interrupted>>

\* Retry(total=MAX_RETRIES): a failed attempt is followed by another one
TransportRetry ==
    /\ pc = "send"
    /\ attempt < MAX_RETRIES
    /\ \E f \in Failures :
         /\ f.body.cause \in RetryableCauses
         /\ response' = f
    /\ attempt' = attempt + 1
    /\ UNCHANGED <<args, pc, op, token, sent, svc, first_page, reports, shown,
                   result, file, stderr, stdout, exitCode, interrupted>>

\* the failure is final: session.request raises, _make_request raises WPSecAPIError
TransportFail ==
    /\ pc = "send"
    /\ \E f \in Failures :
         /\ f.body.cause \in RetryableCauses => attempt = MAX_RETRIES
         /\ response' = f
         /\ \E e \in Raised(f.body.cause) : RequestError(ExceptKind(e))
    /\ UNCHANGED <<args, op, token, attempt, sent, svc, first_page, reports, shown,
                   file, interrupted>>

\* the status branches without the one for 401
StatusError_no_401(st) ==
    IF st = 404 THEN "REPORT_NOT_FOUND"
    ELSE IF st = 429 THEN "RATE_LIMIT"
    ELSE IF st >= 500 THEN "SERVER_ERROR"
    ELSE "HTTP_ERROR"

\* _check_response_status: the error raised for a status that is not expected
StatusError(st) ==
    IF st = 401 THEN "AUTH_FAILED"
    ELSE IF st = 404 THEN "REPORT_NOT_FOUND"
    ELSE IF st = 429 THEN "RATE_LIMIT"
    ELSE IF st >= 500 THEN "SERVER_ERROR"
    ELSE "HTTP_ERROR"

\* _check_response_status, up to the parse of an error body
CheckStatus ==
    /\ pc = "check"
    /\ LET st == response.status
       IN  IF st \in expected_codes
           THEN /\ pc' = "recv"
                /\ UNCHANGED <<result, stderr, stdout, exitCode>>
           ELSE IF StatusError(st) # "HTTP_ERROR" THEN RequestError(StatusError(st))
           ELSE /\ pc' = "errjson"
                /\ UNCHANGED <<result, stderr, stdout, exitCode>>
    /\ UNCHANGED <<args, op, token, attempt, response, sent, svc, first_page, reports,
                   shown, file, interrupted>>

\* _check_response_status: response.json() inside try/except, then HTTP_ERROR
CheckStatusError ==
    /\ pc = "errjson"
    /\ RequestError("HTTP_ERROR")
    /\ UNCHANGED <<args, op, token, attempt, response, sent, svc, first_page, reports,
                   shown, file, interrupted>>

(***************************************************************************)
(* WPSecCLI.run and the actions it dispatches to                           *)
(***************************************************************************)
NoPayload == <<>>

\* run: authenticate unless pinging
RunStart ==
    /\ pc = "start"
    /\ IF args.action # "ping"
       THEN Call("authenticate", "POST", "oauth/token", 0, NoPayload)
       ELSE /\ pc' = "dispatch"
            /\ UNCHANGED <<op, attempt, response, sent>>
    /\ UNCHANGED <<args, token, svc, first_page, reports, shown, result, file,
                   stderr, stdout, exitCode, interrupted>>

\* WPSecClient.authenticate, after the request returned
Authenticate ==
    /\ pc = "recv"
    /\ op = "authenticate"
    /\ LET b == response.body
       IN  IF b.kind = "auth_failed" THEN HandleApiError("AUTH_FAILED") /\ token' = token
           ELSE IF b.kind = "not_json" THEN HandleApiError("INVALID_JSON") /\ token' = token
           ELSE IF b.kind = "no_token"
                THEN HandleApiError("NO_ACCESS_TOKEN") /\ token' = token
           ELSE /\ token' = b.access_token
                /\ pc' = "dispatch"
                /\ UNCHANGED <<stderr, stdout, exitCode>>
    /\ UNCHANGED <<args, op, attempt, response, sent, svc, first_page, reports, shown,
                   result, file, interrupted>>

\* _action_ping: WPSecClient.ping sends its request
ActionPing ==
    /\ pc = "dispatch"
    /\ args.action = "ping"
    /\ Call("ping", "GET", "ping", 0, NoPayload)
    /\ UNCHANGED <<args, token, svc, first_page, reports, shown, result, file,
                   stderr, stdout, exitCode, interrupted>>

\* WPSecClient.ping after the request returned, and _action_ping's report of it
Ping ==
    /\ pc = "recv"
    /\ op = "ping"
    /\ IF response.body.kind = "pingpong"
       THEN result' = "ping_up" /\ Return(<<>>)
       ELSE result' = "ping_down" /\ Return(<<"API_DOWN">>)
    /\ UNCHANGED <<args, op, token, attempt, response, sent, svc, first_page, reports,
                   shown, file, interrupted>>

\* _action_get_sites: WPSecClient.get_sites sends its request
ActionGetSites ==
    /\ pc = "dispatch"
    /\ args.action = "get_sites"
    /\ Call("get_sites", "GET", "sites", 0, NoPayload)
    /\ UNCHANGED <<args, token, svc, first_page, reports, shown, result, file,
                   stderr, stdout, exitCode, interrupted>>

\* WPSecClient.get_sites after the request returned, and _pretty_print_sites
GetSites ==
    /\ pc = "recv"
    /\ op = "get_sites"
    /\ IF response.body.kind = "sites"
       THEN result' = "sites" /\ Return(<<>>)
       ELSE result' = result /\ HandleUnexpected
    /\ UNCHANGED <<args, op, token, attempt, response, sent, svc, first_page, reports,
                   shown, file, interrupted>>

\* _action_add_site: WPSecClient.add_site validates, then sends its request
ActionAddSite ==
    /\ pc = "dispatch"
    /\ args.action = "add_site"
    /\ LET v == AddSiteValidate(args.title, args.url)
       IN  IF v.ok
           THEN /\ Call("add_site", "POST", "sites", 0, <<v.title, v.url>>)
                /\ UNCHANGED <<stderr, stdout, exitCode>>
           ELSE /\ op' = "add_site"
                /\ HandleApiError(v.error)
                /\ UNCHANGED <<attempt, response, sent>>
    /\ UNCHANGED <<args, token, svc, first_page, reports, shown, result, file,
                   interrupted>>

\* WPSecClient.add_site after the request returned, and _action_add_site's report
AddSite ==
    /\ pc = "recv"
    /\ op = "add_site"
    /\ LET b == response.body
       IN  IF b.Error THEN result' = result /\ HandleApiError("ERROR_IN_RESPONSE")
           ELSE IF b.added THEN result' = "site_added" /\ Return(<<>>)
           ELSE IF b.taken THEN result' = result /\ HandleApiError("SITE_EXISTS")
           ELSE result' = result /\ HandleApiError("UNKNOWN_RESPONSE")
    /\ UNCHANGED <<args, op, token, attempt, response, sent, svc, first_page, reports,
                   shown, file, interrupted>>

(***************************************************************************)
(* _action_list_reports                                                    *)
(***************************************************************************)
\* the reassembly of user page 1 from the remainder page and the page before it
Reassemble(report_list, prev_report_list, per_page) ==
    LET needed == per_page - Len(report_list)
        additional_reports ==
            IF needed < Len(prev_report_list)
            THEN SubSeq(prev_report_list, Len(prev_report_list) - needed + 1,
                        Len(prev_report_list))
            ELSE prev_report_list
        combined_reports == Reverse(report_list \o additional_reports)
    IN  SubSeq(combined_reports, 1, Min(per_page, Len(combined_reports)))

\* the page computed without the + 1
actual_page_off_by_one(total_pages) == total_pages - args.page

actual_page(total_pages) == total_pages - args.page + 1

\* report_data is cleared and refilled: the entries are reindexed, nothing else is kept
Refilled(list) ==
    [kind |-> "listing", list |-> list, has_paginate |-> FALSE,
     page |-> args.page, total_pages |-> 0]

\* _pretty_print_reports(reports, args.page, total_pages): what it is handed and prints
_pretty_print_reports(data, total_pages) ==
    /\ shown' = [data EXCEPT !.total_pages = total_pages]
    /\ Return(IF data.kind = "no_data" THEN <<"INVALID_FORMAT">>
              ELSE IF data.list = <<>> THEN <<"NO_REPORTS">>
              ELSE <<>>)

AsShown(page_data) ==
    [kind |-> IF page_data.kind = "no_data" THEN "no_data" ELSE "listing",
     list |-> page_data.list, has_paginate |-> page_data.has_paginate,
     page |-> args.page, total_pages |-> 0]

_action_list_reports ==
    /\ pc = "dispatch"
    /\ args.action = "list_reports"
    /\ Call("list_first", "GET", "reports", 1, NoPayload)
    /\ UNCHANGED <<args, token, svc, first_page, reports, shown, result, file,
                   stderr, stdout, exitCode, interrupted>>

\* page 1 of the service returned: the pagination info, the page to fetch
ListFirst ==
    /\ pc = "recv"
    /\ op = "list_first"
    /\ LET b == response.body
           total_pages == b.paginate.last_page
           actual == actual_page(total_pages)
       IN  IF b.kind = "not_json"
           THEN /\ HandleUnexpected
                /\ UNCHANGED <<op, attempt, response, sent, first_page, reports, shown>>
           ELSE IF b.kind \in {"no_data", "no_paginate"}
           THEN /\ Return(<<"INVALID_FORMAT">>)
                /\ first_page' = b
                /\ UNCHANGED <<op, attempt, response, sent, reports, shown>>
           ELSE IF actual < 1 \/ actual > total_pages
           THEN /\ Return(<<"PAGE_OUT_OF_RANGE">>)
                /\ first_page' = b
                /\ UNCHANGED <<op, attempt, response, sent, reports, shown>>
           ELSE IF actual = 1
           THEN /\ first_page' = b
                /\ reports' = b
                /\ _pretty_print_reports(Refilled(Reverse(b.list)), total_pages)
                /\ UNCHANGED <<op, attempt, response, sent>>
           ELSE /\ first_page' = b
                /\ Call("list_actual", "GET", "reports", actual, NoPayload)
                /\ UNCHANGED <<reports, shown, stderr, stdout, exitCode>>
    /\ UNCHANGED <<args, token, svc, result, file, interrupted>>

\* the page to show returned: show it reversed, or fetch the page before it
ListActual ==
    /\ pc = "recv"
    /\ op = "list_actual"
    /\ LET b == response.body
           total_pages == first_page.paginate.last_page
           per_page == first_page.paginate.per_page
           actual == actual_page(total_pages)
       IN  IF b.kind = "not_json"
           THEN /\ HandleUnexpected
                /\ UNCHANGED <<op, attempt, response, sent, reports, shown>>
           ELSE IF b.kind = "no_data"
           THEN /\ reports' = b
                /\ _pretty_print_reports(AsShown(b), total_pages)
                /\ UNCHANGED <<op, attempt, response, sent>>
           ELSE IF args.page = 1 /\ Len(b.list) < per_page /\ actual > 1
           THEN /\ reports' = b
                /\ Call("list_prev", "GET", "reports", actual - 1, NoPayload)
                /\ UNCHANGED <<shown, stderr, stdout, exitCode>>
           ELSE /\ reports' = b
                /\ _pretty_print_reports(Refilled(Reverse(b.list)), total_pages)
                /\ UNCHANGED <<op, attempt, response, sent>>
    /\ UNCHANGED <<args, token, svc, first_page, result, file, interrupted>>

\* the page before the remainder page returned: fill user page 1 from it
ListPrev ==
    /\ pc = "recv"
    /\ op = "list_prev"
    /\ LET b == response.body
           total_pages == first_page.paginate.last_page
           per_page == first_page.paginate.per_page
       IN  IF b.kind = "not_json"
           THEN /\ HandleUnexpected
                /\ UNCHANGED shown
           ELSE IF b.kind = "no_data"
           THEN _pretty_print_reports(AsShown(reports), total_pages)
           ELSE _pretty_print_reports(Refilled(Reassemble(reports.list, b.list, per_page)), total_pages)
    /\ UNCHANGED <<args, op, token, attempt, response, sent, svc, first_page, reports,
                   result, file, interrupted>>

\* the service between two fetches: its oldest report is deleted
ServiceDelete ==
    /\ pc = "send"
    /\ op \in {"list_actual", "list_prev"}
    /\ svc.changes < MaxServiceChanges
    /\ SvcCount(svc) > 0
    /\ svc' = [svc EXCEPT !.first = @ + 1, !.changes = @ + 1]
    /\ UNCHANGED <<args, pc, op, token, attempt, response, sent, first_page, reports,
                   shown, result, file, stderr, stdout, exitCode, interrupted>>

\* the service between two fetches: a new report is created
ServiceAdd ==
    /\ pc = "send"
    /\ op \in {"list_actual", "list_prev"}
    /\ svc.changes < MaxServiceChanges
    /\ svc' = [svc EXCEPT !.last = @ + 1, !.changes = @ + 1]
    /\ UNCHANGED <<args, pc, op, token, attempt, response, sent, first_page, reports,
                   shown, result, file, stderr, stdout, exitCode, interrupted>>

(***************************************************************************)
(* _action_get_report                                                      *)
(***************************************************************************)
_action_get_report ==
    /\ pc = "dispatch"
    /\ args.action = "get_report"
    /\ IF ReportIdValid(args.report_id)
       THEN /\ Call("get_report", "GET", "report", 0, Strip(args.report_id))
            /\ UNCHANGED <<stderr, stdout, exitCode>>
       ELSE /\ op' = "get_report"
            /\ HandleApiError("INVALID_REPORT_ID")
            /\ UNCHANGED <<attempt, response, sent>>
    /\ UNCHANGED <<args, token, svc, first_page, reports, shown, result, file,
                   interrupted>>

\* WPSecClient.get_report after the request returned: the report, or the error raised
ReportOutcome(b) ==
    IF b.html
    THEN IF b.content = "not_found" THEN "NOT_FOUND_HTML"
         ELSE IF b.content = "permission" THEN "PERMISSION_DENIED"
         ELSE "HTML_INSTEAD_OF_JSON"
    ELSE IF b.content = "empty" THEN "EMPTY_RESPONSE"
    ELSE IF b.content = "no_resource" THEN "REPORT_NOT_FOUND"
    ELSE IF b.content = "json" THEN "ok"
    ELSE "JSON_PARSE_ERROR"

\* the report returned: print it, or go on to save it
GetReport ==
    /\ pc = "recv"
    /\ op = "get_report"
    /\ LET outcome == ReportOutcome(response.body)
       IN  IF outcome # "ok" THEN result' = result /\ HandleApiError(outcome)
           ELSE IF args.output
           THEN /\ pc' = "file_open"
                /\ UNCHANGED <<result, stderr, stdout, exitCode>>
           ELSE result' = "report_printed" /\ Return(<<>>)
    /\ UNCHANGED <<args, op, token, attempt, response, sent, svc, first_page, reports,
                   shown, file, interrupted>>

\* open(args.output, 'w'): the file is created or truncated, or IOError
FileOpen ==
    /\ pc = "file_open"
    /\ \/ /\ file' = [content |-> "truncated", handle |-> "open"]
          /\ pc' = "file_write"
          /\ UNCHANGED <<stderr, stdout, exitCode>>
       \/ /\ file' = file
          /\ Finish(1, <<"WRITE_ERROR">>, <<>>)
    /\ UNCHANGED <<args, op, token, attempt, response, sent, svc, first_page, reports,
                   shown, result, interrupted>>

\* f.write(json_str) and the end of the with block: written and closed, or IOError
FileWrite ==
    /\ pc = "file_write"
    /\ \/ /\ file' = [content |-> "complete", handle |-> "closed"]
          /\ result' = "report_saved"
          /\ Return(<<>>)
       \/ /\ \E c \in {"truncated", "partial"} :
               file' = [content |-> c, handle |-> "closed"]
          /\ result' = result
          /\ Finish(1, <<"WRITE_ERROR">>, <<>>)
    /\ UNCHANGED <<args, op, token, attempt, response, sent, svc, first_page, reports,
                   shown, interrupted>>

(***************************************************************************)
(* The keyboard                                                            *)
(***************************************************************************)
Running == pc \in {"start", "dispatch", "send", "check", "errjson", "recv",
                   "file_open", "file_write"}

\* KeyboardInterrupt is raised where the run stands.  The bare except around
\* response.json() in _check_response_status catches it; everywhere else it
\* reaches run's handler, through the with block when the file is open.
Interrupt ==
    /\ Running
    /\ ~interrupted
    /\ interrupted' = TRUE
    /\ IF pc = "errjson"
       THEN RequestError("HTTP_ERROR") /\ file' = file
       ELSE /\ HandleInterrupt
            /\ result' = result
            /\ IF file.handle = "open"
               THEN \E c \in {"truncated", "partial"} :
                      file' = [content |-> c, handle |-> "closed"]
               ELSE file' = file
    /\ UNCHANGED <<args, op, token, attempt, response, sent, svc, first_page, reports,
                   shown>>

Next ==
    \/ RunStart
    \/ Authenticate
    \/ TransportRespond
    \/ TransportRetry
    \/ TransportFail
    \/ CheckStatus
    \/ CheckStatusError
    \/ ActionPing
    \/ Ping
    \/ ActionGetSites
    \/ GetSites
    \/ ActionAddSite
    \/ AddSite
    \/ _action_list_reports
    \/ ListFirst
    \/ ListActual
    \/ ListPrev
    \/ ServiceDelete
    \/ ServiceAdd
    \/ _action_get_report
    \/ GetReport
    \/ FileOpen
    \/ FileWrite
    \/ Interrupt

Spec == Init /\ [][Next]_vars

(***************************************************************************)
(* Properties                                                              *)
(***************************************************************************)
Exited == pc = "exit"

ReportRequests == { i \in 1..Len(sent) : sent[i].endpoint = "reports" }

StrictlyNewestFirst(list) == \A i \in 1..(Len(list) - 1) : list[i] > list[i + 1]

\* the n newest reports of the service, newest first
Newest(n) == [i \in 1..n |-> svc.last + 1 - i]

\* every reply of a list_reports run was a well-formed page of an unchanged service
FixedService ==
    /\ svc.changes = 0
    /\ first_page.kind = "page"
    /\ reports.kind = "page"
    /\ response.body.kind = "page"

\* C1: with the service paginating a fixed set of reports oldest-first, the list
\* handed to display is strictly newest-first, and user page 1 is exactly the
\* min(perPage, total) newest reports, newest first.
C1_NewestFirst ==
    (Exited /\ shown.kind = "listing" /\ FixedService)
    => /\ StrictlyNewestFirst(shown.list)
       /\ args.page = 1
          => shown.list = Newest(Min(svc.perPage, SvcCount(svc)))

\* C2: the reassembled output of list_reports holds no reportId more than once,
\* also when the remainder page and the filler page share a report.
C2_NoDuplicate ==
    (Exited /\ shown.kind = "listing")
    => \A i, j \in 1..Len(shown.list) : shown.list[i] = shown.list[j] => i = j

AuthenticatedRun == sent # <<>> /\ sent[1].endpoint = "oauth/token"

\* C4: no token is held before the token endpoint was asked, a further request is
\* sent only once authenticate stored a token, and every such request carries
\* Authorization: Bearer <token>, whatever token value the token endpoint returned.
C4_BearerOnEveryRequest ==
    /\ sent = <<>> => token = None
    /\ Len(sent) >= 2 => token # None
    /\ AuthenticatedRun =>
         \A i \in 2..Len(sent) : sent[i].authorization = <<"Bearer", token>>

ValidationFails ==
    \/ args.action = "add_site" /\ ~AddSiteValidate(args.title, args.url).ok
    \/ args.action = "get_report" /\ ~ReportIdValid(args.report_id)

\* C5: a run of add_site or get_report whose input fails validation issues no
\* HTTP request at all, the token endpoint included.
C5_NoRequestBeforeValidation == ValidationFails => sent = <<>>

\* a string of exactly REPORT_ID_LEN hexadecimal digits between two runs of whitespace
PaddedReportId(raw) ==
    \E lead \in 0..Len(raw) :
        /\ lead + REPORT_ID_LEN <= Len(raw)
        /\ \A i \in 1..Len(raw) :
             IF i > lead /\ i <= lead + REPORT_ID_LEN
             THEN raw[i] \in HexDigits
             ELSE raw[i] \in Whitespace

ExactReportId(raw) ==
    Len(raw) = REPORT_ID_LEN /\ \A i \in 1..Len(raw) : raw[i] \in HexDigits

ReportRequested == \E i \in 1..Len(sent) : sent[i].endpoint = "report"

ReportIdRejected ==
    /\ Exited
    /\ exitCode = 1
    /\ stderr = <<"INVALID_REPORT_ID">>
    /\ ~ReportRequested

\* C6, as stated: get_report accepts a report id if and only if it is a string of
\* exactly 32 hexadecimal digits, and otherwise fails with the invalid-report-id
\* error without a request of its own.
C6_ExactlyHex32 ==
    op = "get_report"
    => IF ExactReportId(args.report_id) THEN ReportRequested ELSE ReportIdRejected

\* C6, amended: get_report accepts a report id if and only if, once its leading
\* and trailing whitespace is stripped, it is a string of exactly 32 hexadecimal
\* digits; the request carries the stripped id; every other input fails with the
\* invalid-report-id error without a request of its own.
C6_StrippedHex32 ==
    op = "get_report"
    => IF PaddedReportId(args.report_id)
       THEN /\ ReportRequested
            /\ ExactReportId(sent[Len(sent)].payload)
            /\ stderr # <<"INVALID_REPORT_ID">>
       ELSE ReportIdRejected

C6_Witness ==
    /\ op = "get_report"
    /\ ReportRequested
    /\ Len(args.report_id) = REPORT_ID_LEN + 2
    /\ args.report_id[1] = " "

ErrorsOnStdout == {stdout[i] : i \in 1..Len(stdout)} \ {"NO_REPORTS"}

OperationSucceeded == result # None \/ shown.kind = "listing"

\* C7: a run that ends in a handled application error exits with status 1 after
\* a message on the error stream, and a run exits with status 0 only when the
\* requested operation succeeded.
C7_ExitStatus ==
    Exited
    => /\ (stderr # <<>> /\ ~interrupted) => exitCode = 1
       /\ "PAGE_OUT_OF_RANGE" \in ErrorsOnStdout => exitCode = 1 /\ stderr # <<>>
       /\ exitCode = 0 => OperationSucceeded

\* C8: a keyboard interrupt during authentication or during an action ends the
\* run with exit status 130, not reported as an API error.
C8_InterruptExits130 ==
    (Exited /\ interrupted) => exitCode = 130 /\ stderr = <<"CANCELLED">>

\* C9: get_report -o FILE never leaves FILE truncated or partially written, and
\* its handle is closed on every exit path.
C9_FileIntact ==
    (Exited /\ args.action = "get_report" /\ args.output)
    => /\ file.content \in {"absent", "prior", "complete"}
       /\ file.handle # "open"

Accepted == response.body.kind # "failure" /\ response.status \in {200, 201, 204}

\* C10: ping never raises: the run's error handlers stay idle, a failed request
\* or a response that is not accepted gives status error, an accepted response
\* gives up exactly when its body holds the marker and down otherwise.
C10_PingNeverRaises ==
    (Exited /\ args.action = "ping" /\ ~interrupted)
    => /\ stderr = <<>>
       /\ exitCode = 0
       /\ result = IF ~Accepted THEN "ping_error"
                   ELSE IF response.body.kind = "pingpong" THEN "ping_up"
                   ELSE "ping_down"

C10_Witness ==
    /\ Exited
    /\ args.action = "ping"
    /\ attempt = MAX_RETRIES
    /\ response.body.kind = "failure"
    /\ response.body.cause = "connection"
    /\ result = "ping_error"

\* C11: a response with status 401 to authenticate, get_sites, add_site,
\* list_reports or get_report ends the run with the authentication-failed error
\* and no other, whatever body the response carries.
C11_Status401 ==
    (Exited /\ ~interrupted /\ op \notin {None, "ping"} /\ response.status = 401)
    => /\ stderr = <<"AUTH_FAILED">>
       /\ exitCode = 1
       /\ stdout = <<>>

C11_Witness ==
    /\ Exited
    /\ op = "list_prev"
    /\ response.status = 401
    /\ response.body.kind = "page"
    /\ stderr = <<"AUTH_FAILED">>

\* C12: authenticate ends with the authentication-failed error, and stores no
\* token, for every token-endpoint response with a status that is not 2xx and for
\* every response whose body holds the authentication-failed signature.
C12_AuthenticateFails ==
    (/\ Exited
     /\ ~interrupted
     /\ op = "authenticate"
     /\ response.body.kind # "failure"
     /\ (response.status >= 300 \/ response.body.kind = "auth_failed"))
    => /\ stderr = <<"AUTH_FAILED">>
       /\ exitCode = 1
       /\ token = None

\* the response was handed to add_site's inspection of the body
AddSiteInspected ==
    /\ Exited
    /\ ~interrupted
    /\ op = "add_site"
    /\ response.body.kind = "markers"
    /\ response.status \in {200, 201}

\* C13: add_site reports the site added only for a body with the success marker;
\* a body with the already-exists marker gives the site-exists error, a body with
\* the generic error marker an error-in-response, and a body with none of the
\* three the unknown-response error.
C13_AddSiteMarkers ==
    AddSiteInspected
    => LET b == response.body
       IN  /\ result = "site_added" => b.added /\ exitCode = 0
           /\ result # "site_added" => exitCode = 1
           /\ b.taken => stderr = <<"SITE_EXISTS">>
           /\ (b.Error /\ ~b.taken) => stderr = <<"ERROR_IN_RESPONSE">>
           /\ (~b.Error /\ ~b.added /\ ~b.taken) => stderr = <<"UNKNOWN_RESPONSE">>

\* the errors run reports for a WPSecAPIError raised on a request's way back
ApiErrors ==
    {"AUTH_FAILED", "REPORT_NOT_FOUND", "RATE_LIMIT", "SERVER_ERROR", "HTTP_ERROR",
     "API_DOWN", "API_TIMEOUT", "REQUEST_FAILED"}

\* C14: get_sites ends with an API error for every response with a status that is
\* not 2xx and for every body that carries an error instead of the sites; it
\* returns the sites only for an accepted response whose body is the list of sites.
C14_GetSitesErrors ==
    (Exited /\ ~interrupted /\ op = "get_sites" /\ response.body.kind # "failure")
    => /\ (response.status >= 300 \/ response.body.kind = "error_object")
          => /\ exitCode = 1
             /\ Len(stderr) = 1
             /\ stderr[1] \in ApiErrors
             /\ result = None
       /\ result = "sites" => Accepted /\ response.body.kind = "sites"

\* C15: get_report ends with the empty-response error for every accepted response
\* with an empty body, whatever its content type, and with the report-not-found
\* error for a body with the no-resource-found marker, not with a parse error.
C15_EmptyAndNoResource ==
    (/\ Exited
     /\ ~interrupted
     /\ op = "get_report"
     /\ Accepted
     /\ response.body.kind = "report")
    => /\ response.body.content = "empty" => stderr = <<"EMPTY_RESPONSE">>
       /\ (response.body.content = "no_resource" /\ ~response.body.html)
          => stderr = <<"REPORT_NOT_FOUND">>

\* add_site reached the checks of the URL: the stripped title passed its own
TitleAccepted(raw) == Strip(raw) # <<>> /\ Len(Strip(raw)) <= TITLE_MAX

\* the URL parses with the scheme htpp or htpps
SchemeTypo(raw) == urlparse(Strip(raw)).scheme \in {htpp, htpps}

\* C16: add_site with a URL whose scheme is htpp or htpps ends with the
\* did-you-mean error, not with the invalid-URL error, for every host and path.
C16_DidYouMean ==
    (/\ Exited
     /\ ~interrupted
     /\ op = "add_site"
     /\ TitleAccepted(args.title)
     /\ SchemeTypo(args.url))
    => /\ stderr = <<"SCHEME_TYPO">>
       /\ exitCode = 1

\* the request of an operation other than ping ended in a transport failure
RequestFailed ==
    /\ Exited
    /\ ~interrupted
    /\ op \notin {None, "ping"}
    /\ response.body.kind = "failure"

\* C17: a request that ends in a connect or read timeout is reported as the
\* timeout error and never as the API-down error; a connection failure is
\* reported, once the retries are used up, as API-down and never as a timeout.
C17_TimeoutDistinct ==
    RequestFailed
    => /\ response.body.cause \in {"connect_timeout", "read_timeout"}
          => stderr = <<"API_TIMEOUT">>
       /\ response.body.cause = "connection"
          => attempt = MAX_RETRIES /\ stderr = <<"API_DOWN">>

\* the statuses after which the transport may send again
RetriedStatuses == {429, 500, 502, 503, 504}

C19_KeepsPagination ==
    (Exited /\ ~interrupted /\ shown.kind = "listing" /\ reports.kind = "page")
    => /\ shown.has_paginate
       /\ shown.page = args.page
       /\ shown.total_pages = first_page.paginate.last_page

\* total_pages as page 1 of service s reports it
LastPage(s) == ServicePage(s, 1).paginate.last_page

\* the list a run of list_reports -p p shows when service s answers every request
\* with a well-formed page and does not change
UserPage(s, p) ==
    LET actual == LastPage(s) - p + 1
        report_list == ServicePage(s, actual).list
    IN  IF actual < 1 \/ actual > LastPage(s) THEN <<>>
        ELSE IF p = 1 /\ Len(report_list) < s.perPage /\ actual > 1
        THEN Reassemble(report_list, ServicePage(s, actual - 1).list, s.perPage)
        ELSE Reverse(report_list)

ListedOn(s, p) == { UserPage(s, p)[i] : i \in 1..Len(UserPage(s, p)) }

\* the run shows what UserPage computes
ShownIsUserPage ==
    (Exited /\ shown.kind = "listing" /\ FixedService)
    => shown.list = UserPage(svc, args.page)

\* C20: for a service that does not change, the user pages 1..last_page partition
\* the reports: no report the run shows is listed on another user page, and every
\* report of the service is listed on some user page.
C20_Partition ==
    (Exited /\ shown.kind = "listing" /\ FixedService)
    => /\ \A q \in 1..LastPage(svc) :
            q # args.page
            => { shown.list[i] : i \in 1..Len(shown.list) } \cap ListedOn(svc, q) = {}
       /\ \A r \in svc.first..svc.last : \E q \in 1..LastPage(svc) : r \in ListedOn(svc, q)

====
